---- MODULE Spec2Model ----
(***************************************************************************)
(* Model of go-filterchain (src/lib.go): a Chain of serial and parallel    *)
(* stages with a cursor (chain.pos), driven by Chain.Execute / Chain.Next. *)
(*                                                                         *)
(* Every goroutine is a call stack of frames.  Thread 1 is the driving     *)
(* caller; a parallelFilter.Execute appends one goroutine per owned filter *)
(* (errgroup.Group.Go).  A filter body is an opaque callable: it may       *)
(* increment a shared counter, call chain.Next (and, on the driving        *)
(* thread, chain.Execute) a bounded number of times, and return nil or an  *)
(* error of its choice.  Branches of a parallel stage reach the chain      *)
(* through Next only, as in the repository's tests.                        *)
(*                                                                         *)
(* chain.pos keeps Go's 0-based value; the stage with Go index i is        *)
(* filters[i + 1].                                                         *)
(*                                                                         *)
(* The Store (a map behind a sync.RWMutex) is modelled on its own: a few   *)
(* goroutines issue Put and Get calls, each call a lock step, the map      *)
(* access and an unlock step (SpecStore).  SpecRun is the chain driven     *)
(* once from cursor 0 with filters that succeed, under weak fairness.      *)
(***************************************************************************)
EXTENDS Integers, Sequences, FiniteSets, TLC

\* ---- bounds ----
MaxFilters == 3
MaxCalls == 2
MaxBranchCalls == 1
MaxDriverCalls == 2
MaxProcs == 2
MaxOps == 3

Errs == {"e1", "e2"}
Results == {"nil"} \cup Errs

Keys == {"a", "b", "c"}
Vals == {"x", "y"}

VARIABLES
    filters,    \* chain.filters: sequence of stages
    pos,        \* chain.pos
    stacks,     \* call stack of every goroutine; stacks[1] is the driver
    groups,     \* one errgroup.Group per parallelFilter.Execute call
    panicked,   \* a runtime panic (index out of range) has occurred
    counter,    \* shared counter the filter bodies may increment
    nextId,     \* identity of the next filter value handed to Add*
    ncalls,     \* number of calls the driver has issued
    results,    \* results of the driver's calls, in order (history)
    started,    \* Go indices of the stages started, in order (history)
    stageRes,   \* result each stage's Execute returned (history)
    doneWrites, \* number of writes of pf.done per stage (history)
    ev          \* the last step taken (history)

vars == <<filters, pos, stacks, groups, panicked, counter, nextId, ncalls,
          results, started, stageRes, doneWrites, ev>>

VARIABLES
    data,       \* Store.data: the map, a function on the keys present
    wlock,      \* the RWMutex is held by a writer
    rcount,     \* number of readers holding the RWMutex
    procs,      \* the goroutines calling Put / Get and where each one is
    nops,       \* number of Store calls issued
    puts,       \* the <<key, value>> pairs of the Put calls issued (history)
    nputs,      \* number of Put calls issued (history)
    hist,       \* per key, the values written, in order (history)
    crashed     \* the runtime reported a concurrent map access

svars == <<data, wlock, rcount, procs, nops, puts, nputs, hist, crashed>>

IdleProc ==
    [op |-> "none", key |-> "a", val |-> "x", pc |-> "idle",
     res |-> <<"nil", FALSE>>, ver |-> 0, conc |-> FALSE]

InitStore ==
    /\ data = <<>>
    /\ wlock = FALSE
    /\ rcount = 0
    /\ procs = [p \in 1..MaxProcs |-> IdleProc]
    /\ nops = 0
    /\ puts = {}
    /\ nputs = 0
    /\ hist = [k \in Keys |-> <<>>]
    /\ crashed = FALSE

\* ---- frames ----
\* op: Execute, Next (Chain methods), serial, parallel (stage Execute),
\*     go (errgroup closure), filter (opaque filter body)
\*     p0, s0, d0: cursor, stages started and flags set when it was pushed
NumDone == Cardinality({i \in 1..Len(filters) : filters[i].done})

Frame(op, pc, c, i, g, src) ==
    [op |-> op, pc |-> pc, c |-> c, i |-> i, g |-> g, src |-> src,
     k |-> 0, r |-> "nil", p0 |-> pos, s0 |-> Len(started), d0 |-> NumDone]

Event(kind, op, t, c, r, src, g) ==
    [kind |-> kind, op |-> op, t |-> t, c |-> c, r |-> r, src |-> src,
     g |-> g, p0 |-> pos, s0 |-> Len(started), k |-> 0]

Top(t) == stacks[t][Len(stacks[t])]

Running(t) == t \in 1..Len(stacks) /\ stacks[t] # <<>> /\ ~panicked

At(t, op, pc) == Running(t) /\ Top(t).op = op /\ Top(t).pc = pc

\* the stack after its top frame returned r to its caller
Ret(st, r) ==
    LET s == SubSeq(st, 1, Len(st) - 1)
    IN  IF s = <<>> THEN s
        ELSE [s EXCEPT ![Len(s)] = [@ EXCEPT !.pc = "ret", !.r = r]]

\* the stack after its top frame, now at pc, called frame f
Call(st, pc, f) ==
    Append([st EXCEPT ![Len(st)] = [@ EXCEPT !.pc = pc]], f)

\* the driver's call returned: record its result
Deliver(t, r) ==
    results' = IF t = 1 /\ Len(stacks[1]) = 1 THEN Append(results, r)
               ELSE results

StageAt(i) == filters[i + 1]

NewSerial(id) == [kind |-> "serial", fs |-> <<id>>, done |-> FALSE]

\* mutant: the filters are wrapped in reverse order
NewParallel_Reversed(ids) ==
    [kind |-> "parallel",
     fs |-> [j \in 1..Len(ids) |-> ids[Len(ids) + 1 - j]], done |-> FALSE]

NewParallel(ids) == [kind |-> "parallel", fs |-> ids, done |-> FALSE]

Idle == stacks[1] = <<>> /\ ~panicked

Init ==
    /\ filters = <<>>
    /\ pos = 0
    /\ stacks = << <<>> >>
    /\ groups = <<>>
    /\ panicked = FALSE
    /\ counter = 0
    /\ nextId = 1
    /\ ncalls = 0
    /\ results = <<>>
    /\ started = <<>>
    /\ stageRes = <<>>
    /\ doneWrites = <<>>
    /\ ev = [kind |-> "init", op |-> "", t |-> 0, c |-> 0, r |-> "nil",
             src |-> "", g |-> 0, p0 |-> 0, s0 |-> 0, k |-> 0]
    /\ InitStore

\* ---- chain construction ----
\* number of filters handed to the chain so far
NumAdded == nextId - 1

AddFilters(n) ==
    /\ Idle
    /\ NumAdded + n <= MaxFilters
    /\ filters' = filters \o [j \in 1..n |-> NewSerial(nextId + j - 1)]
    /\ nextId' = nextId + n
    /\ stageRes' = stageRes \o [j \in 1..n |-> "none"]
    /\ doneWrites' = doneWrites \o [j \in 1..n |-> 0]
    /\ ev' = Event("add", "AddFilters", 1, n, "nil", "driver", 0)
    /\ UNCHANGED <<pos, stacks, groups, panicked, counter, ncalls, results,
                   started>>

AddParallelFilters(n) ==
    /\ Idle
    /\ NumAdded + n <= MaxFilters
    /\ filters' = IF n = 0 THEN filters
                  ELSE IF n = 1 THEN Append(filters, NewSerial(nextId))
                  ELSE Append(filters,
                         NewParallel([j \in 1..n |-> nextId + j - 1]))
    /\ nextId' = nextId + n
    /\ stageRes' = IF n = 0 THEN stageRes ELSE Append(stageRes, "none")
    /\ doneWrites' = IF n = 0 THEN doneWrites ELSE Append(doneWrites, 0)
    /\ ev' = Event("add", "AddParallelFilters", 1, n, "nil", "driver", 0)
    /\ UNCHANGED <<pos, stacks, groups, panicked, counter, ncalls, results,
                   started>>

\* ---- the driver ----
DriverCall(op) ==
    /\ Idle
    /\ ncalls < MaxDriverCalls
    /\ ncalls' = ncalls + 1
    /\ stacks' = [stacks EXCEPT ![1] = <<Frame(op, "start", 0, 0, 0, "driver")>>]
    /\ ev' = Event("call", op, 1, 0, "nil", "driver", 0)
    /\ UNCHANGED <<filters, pos, groups, panicked, counter, nextId, results,
                   started, stageRes, doneWrites>>

\* ---- Chain.Execute ----
\* mutants: the cursor moves two places / does not move
Advance_Twice(p) == p + 2

Advance_Stay(p) == p

\* chain.pos++
Advance(p) == p + 1

\* mutant: Execute drops the stage's error
ExecuteResult_Swallow(r) == "nil"

\* mutants: the chain halts after an error / never runs its last stage
HasStage_Halted(p) ==
    p < Len(filters) /\ \A j \in 1..Len(results) : results[j] = "nil"

HasStage_SkipLast(p) == p + 1 < Len(filters)

\* if pos < len(chain.filters)
HasStage(p) == p < Len(filters)

\* mutant: Execute on an exhausted chain reports an error
ExhaustedResult_Err == "e1"

\* the final return nil of Execute
ExhaustedResult == "nil"

\* if err := ...; err != nil { return err }; return nil
ExecuteResult(r) == IF r # "nil" THEN r ELSE "nil"

ChainExecute(t) ==
    /\ At(t, "Execute", "start")
    /\ LET p == pos
           f == Top(t)
       IN  IF HasStage(p)
           THEN /\ pos' = Advance(p)
                /\ started' = Append(started, p)
                /\ stacks' = [stacks EXCEPT ![t] =
                     Call([@ EXCEPT ![Len(@)] = [f EXCEPT !.c = p]], "call",
                          [Frame(StageAt(p).kind, "start", p, 0, 0, f.src)
                             EXCEPT !.p0 = p + 1, !.s0 = Len(started) + 1])]
                /\ ev' = Event("start", "Execute", t, p, "nil", f.src, f.g)
                /\ UNCHANGED results
           ELSE /\ stacks' = [stacks EXCEPT ![t] = Ret(@, ExhaustedResult)]
                /\ Deliver(t, ExhaustedResult)
                /\ ev' = Event("ret", "Execute", t, -1, ExhaustedResult,
                               f.src, f.g)
                /\ UNCHANGED <<pos, started>>
    /\ UNCHANGED <<filters, groups, panicked, counter, nextId, ncalls,
                   stageRes, doneWrites>>

ChainExecuteRet(t) ==
    /\ At(t, "Execute", "ret")
    /\ LET f == Top(t)
       IN  /\ stacks' = [stacks EXCEPT ![t] = Ret(@, ExecuteResult(f.r))]
           /\ Deliver(t, ExecuteResult(f.r))
           /\ ev' = [Event("ret", "Execute", t, f.c, ExecuteResult(f.r),
                           f.src, f.g)
                       EXCEPT !.p0 = f.p0, !.s0 = f.s0]
    /\ UNCHANGED <<filters, pos, groups, panicked, counter, nextId, ncalls,
                   started, stageRes, doneWrites>>

\* ---- Chain.Next ----
\* ghost bookkeeping of a Next issued for group g by a branch or by the join
Count(g, src, delegated) ==
    IF g = 0 THEN groups
    ELSE [groups EXCEPT ![g] =
            [@ EXCEPT !.branchNext = @ + (IF src = "branch" THEN 1 ELSE 0),
                      !.branchExec = @ + (IF src = "branch" /\ delegated
                                          THEN 1 ELSE 0),
                      !.joinExec = @ + (IF src = "join" /\ delegated
                                        THEN 1 ELSE 0)]]

\* chain.filters[pos] with pos = chain.pos - 1 is in range
InRange(i) == 0 <= i /\ i < Len(filters)

\* mutants of the type switch: Next never gates / gates on every parallel
\* stage / gates on the finished parallel stages only
Outstanding_Never(i) == FALSE

Outstanding_Inverted(i) == StageAt(i).kind = "parallel" /\ StageAt(i).done

Outstanding_AnyParallel(i) == StageAt(i).kind = "parallel"

\* the type switch of Next: TRUE when Next returns nil without Execute
Outstanding(i) == StageAt(i).kind = "parallel" /\ ~StageAt(i).done

ChainNext(t) ==
    /\ At(t, "Next", "start")
    /\ LET f == Top(t)
           i == pos - 1
       IN  IF ~InRange(i)
           THEN /\ panicked' = TRUE
                /\ ev' = Event("panic", "Next", t, i, "nil", f.src, f.g)
                /\ UNCHANGED <<stacks, groups, results>>
           ELSE IF Outstanding(i)
           THEN /\ stacks' = [stacks EXCEPT ![t] = Ret(@, "nil")]
                /\ Deliver(t, "nil")
                /\ groups' = Count(f.g, f.src, FALSE)
                /\ ev' = Event("noop", "Next", t, i, "nil", f.src, f.g)
                /\ UNCHANGED panicked
           ELSE /\ stacks' = [stacks EXCEPT ![t] =
                     Call(@, "call",
                          Frame("Execute", "start", 0, 0, f.g, f.src))]
                /\ groups' = Count(f.g, f.src, TRUE)
                /\ ev' = Event("delegate", "Next", t, i, "nil", f.src, f.g)
                /\ UNCHANGED <<panicked, results>>
    /\ UNCHANGED <<filters, pos, counter, nextId, ncalls, started, stageRes,
                   doneWrites>>

ChainNextRet(t) ==
    /\ At(t, "Next", "ret")
    /\ LET f == Top(t)
       IN  /\ stacks' = [stacks EXCEPT ![t] = Ret(@, f.r)]
           /\ Deliver(t, f.r)
           /\ ev' = [Event("ret", "Next", t, f.c, f.r, f.src, f.g)
                       EXCEPT !.p0 = f.p0, !.s0 = f.s0]
    /\ UNCHANGED <<filters, pos, groups, panicked, counter, nextId, ncalls,
                   started, stageRes, doneWrites>>

\* ---- serialFilter.Execute ----
\* mutant: the stage reports success whatever its filter returned
SerialResult_Swallow(r) == "nil"

\* if err = sf.filter.Execute(chain, store); err != nil { return err }; return nil
SerialResult(r) == IF r # "nil" THEN r ELSE "nil"

SerialExecute(t) ==
    /\ At(t, "serial", "start")
    /\ LET f == Top(t)
       IN  /\ stacks' = [stacks EXCEPT ![t] =
                Call(@, "call", Frame("filter", "start", f.c, 1, 0, "filter"))]
           /\ ev' = Event("run", "serial", t, f.c, "nil", "filter", 0)
    /\ UNCHANGED <<filters, pos, groups, panicked, counter, nextId, ncalls,
                   results, started, stageRes, doneWrites>>

SerialExecuteRet(t) ==
    /\ At(t, "serial", "ret")
    /\ LET f == Top(t)
       IN  /\ stacks' = [stacks EXCEPT ![t] = Ret(@, SerialResult(f.r))]
           /\ stageRes' = [stageRes EXCEPT ![f.c + 1] = SerialResult(f.r)]
           /\ ev' = [Event("ret", "serial", t, f.c, SerialResult(f.r), f.src, 0)
                       EXCEPT !.p0 = f.p0, !.s0 = f.s0]
    /\ UNCHANGED <<filters, pos, groups, panicked, counter, nextId, ncalls,
                   results, started, doneWrites>>

\* ---- parallelFilter.Execute ----
NewGroup(c) ==
    [stage |-> c, launched |-> 0, fin |-> 0, err |-> "nil", order |-> <<>>,
     incs |-> 0, branchNext |-> 0, branchExec |-> 0, joinExec |-> 0]

\* var g errgroup.Group
ParallelExecute(t) ==
    /\ At(t, "parallel", "start")
    /\ LET f == Top(t)
       IN  /\ groups' = Append(groups, NewGroup(f.c))
           /\ stacks' = [stacks EXCEPT ![t] = [@ EXCEPT ![Len(@)] =
                [f EXCEPT !.pc = "launch", !.i = 1, !.g = Len(groups) + 1]]]
           /\ ev' = Event("run", "parallel", t, f.c, "nil", f.src,
                          Len(groups) + 1)
    /\ UNCHANGED <<filters, pos, panicked, counter, nextId, ncalls, results,
                   started, stageRes, doneWrites>>

\* one iteration of the range loop: g.Go(func() error { ... })
ParallelLaunch(t) ==
    /\ At(t, "parallel", "launch")
    /\ LET f == Top(t)
       IN  /\ f.i <= Len(StageAt(f.c).fs)
           /\ stacks' = Append(
                [stacks EXCEPT ![t] = [@ EXCEPT ![Len(@)] =
                    [f EXCEPT !.i = f.i + 1]]],
                << [Frame("go", "call", f.c, f.i, f.g, "branch")
                      EXCEPT !.p0 = f.p0, !.s0 = f.s0],
                   Frame("filter", "start", f.c, f.i, f.g, "branch") >>)
           /\ groups' = [groups EXCEPT ![f.g] =
                [@ EXCEPT !.launched = @ + 1]]
           /\ ev' = Event("spawn", "parallel", t, f.c, "nil", f.src, f.g)
    /\ UNCHANGED <<filters, pos, panicked, counter, nextId, ncalls, results,
                   started, stageRes, doneWrites>>

\* errgroup keeps the first non-nil error its goroutines return (errOnce)
\* mutant: the last error wins
FirstErr_Last(old, r) == IF r # "nil" THEN r ELSE old

FirstErr(old, r) == IF old = "nil" THEN r ELSE old

\* mutants: Wait returns at the first error / without waiting at all
WaitReturns_OnError(f) ==
    /\ f.i > Len(StageAt(f.c).fs)
    /\ \/ groups[f.g].fin = groups[f.g].launched
       \/ groups[f.g].err # "nil"

WaitReturns_NoWait(f) == f.i > Len(StageAt(f.c).fs)

\* g.Wait() may return once every launched goroutine has finished
WaitReturns(f) ==
    /\ f.i > Len(StageAt(f.c).fs)
    /\ groups[f.g].fin = groups[f.g].launched

\* mutants: the join ignores the branches' errors / inverts the test
JoinFails_Ignore(e) == FALSE

JoinFails_Inverted(e) == e = "nil"

\* if err = g.Wait(); err != nil
JoinFails(e) == e # "nil"

\* mutant: the flag is not set before Next is called
JoinFlag_Unset == FALSE

\* pf.done = true
JoinFlag == TRUE

\* err = g.Wait(); on error return it, else pf.done = true; chain.Next(store)
ParallelJoin(t) ==
    /\ At(t, "parallel", "launch")
    /\ LET f == Top(t)
           e == groups[f.g].err
       IN  /\ WaitReturns(f)
           /\ IF JoinFails(e)
              THEN /\ stacks' = [stacks EXCEPT ![t] = Ret(@, e)]
                   /\ stageRes' = [stageRes EXCEPT ![f.c + 1] = e]
                   /\ ev' = [Event("ret", "parallel", t, f.c, e, f.src, f.g)
                               EXCEPT !.p0 = f.p0, !.s0 = f.s0]
                   /\ UNCHANGED <<filters, doneWrites>>
              ELSE /\ filters' = [filters EXCEPT ![f.c + 1].done = JoinFlag]
                   /\ doneWrites' = [doneWrites EXCEPT ![f.c + 1] = @ + 1]
                   /\ stacks' = [stacks EXCEPT ![t] =
                        Call(@, "call",
                             Frame("Next", "start", f.c, 0, f.g, "join"))]
                   /\ ev' = Event("join", "parallel", t, f.c, "nil", f.src,
                                  f.g)
                   /\ UNCHANGED stageRes
    /\ UNCHANGED <<pos, groups, panicked, counter, nextId, ncalls, results,
                   started>>

ParallelExecuteRet(t) ==
    /\ At(t, "parallel", "ret")
    /\ LET f == Top(t)
       IN  /\ stacks' = [stacks EXCEPT ![t] = Ret(@, f.r)]
           /\ stageRes' = [stageRes EXCEPT ![f.c + 1] = f.r]
           /\ ev' = [Event("ret", "parallel", t, f.c, f.r, f.src, f.g)
                       EXCEPT !.p0 = f.p0, !.s0 = f.s0]
    /\ UNCHANGED <<filters, pos, groups, panicked, counter, nextId, ncalls,
                   results, started, doneWrites>>

\* ---- filter bodies (opaque callables) ----
Body(t) == Running(t) /\ Top(t).op = "filter" /\ Top(t).pc \in {"run", "ret"}

\* a body's first statement: atomic.AddUint64(result, 1)
FilterInc(t) ==
    /\ At(t, "filter", "start")
    /\ LET f == Top(t)
       IN  /\ counter' = counter + 1
           /\ stacks' = [stacks EXCEPT ![t] = [@ EXCEPT ![Len(@)] =
                [f EXCEPT !.pc = "run"]]]
           /\ groups' = IF f.g = 0 THEN groups
                        ELSE [groups EXCEPT ![f.g] = [@ EXCEPT !.incs = @ + 1]]
           /\ ev' = Event("inc", "filter", t, f.c, "nil", f.src, f.g)
    /\ UNCHANGED <<filters, pos, panicked, nextId, ncalls, results, started,
                   stageRes, doneWrites>>

\* the chain methods a body on thread t may call, and how many times
BodyOps(t) == IF t = 1 THEN {"Next", "Execute"} ELSE {"Next"}

BodyCalls(t) == IF t = 1 THEN MaxCalls ELSE MaxBranchCalls

FilterCall(t, op) ==
    /\ Body(t)
    /\ LET f == Top(t)
       IN  /\ f.k < BodyCalls(t)
           /\ op \in BodyOps(t)
           /\ stacks' = [stacks EXCEPT ![t] =
                Call([@ EXCEPT ![Len(@)] = [f EXCEPT !.k = f.k + 1]], "call",
                     Frame(op, "start", f.c, 0, f.g, f.src))]
           /\ ev' = Event("call", op, t, f.c, "nil", f.src, f.g)
    /\ UNCHANGED <<filters, pos, groups, panicked, counter, nextId, ncalls,
                   results, started, stageRes, doneWrites>>

\* the body was called by the closure handed to g.Go
InBranch(t) == stacks[t][1].op = "go"

FilterReturn(t, r) ==
    /\ Body(t)
    /\ ~InBranch(t)
    /\ LET f == Top(t)
       IN  /\ stacks' = [stacks EXCEPT ![t] = Ret(@, r)]
           /\ ev' = [Event("ret", "filter", t, f.c, r, f.src, f.g)
                       EXCEPT !.k = f.k]
    /\ UNCHANGED <<filters, pos, groups, panicked, counter, nextId, ncalls,
                   results, started, stageRes, doneWrites>>

\* a branch's body returns r and the closure handed to g.Go returns it in
\* turn: errgroup records the first error and marks the goroutine finished
GoReturn(t, r) ==
    /\ Body(t)
    /\ InBranch(t)
    /\ LET f == Top(t)
       IN  /\ groups' = [groups EXCEPT ![f.g] =
                [@ EXCEPT !.fin = @ + 1,
                          !.err = FirstErr(@, r),
                          !.order = Append(@, r)]]
           /\ stacks' = [stacks EXCEPT ![t] = <<>>]
           /\ ev' = [Event("godone", "go", t, f.c, r, "branch", f.g)
                       EXCEPT !.k = f.k]
    /\ UNCHANGED <<filters, pos, panicked, counter, nextId, ncalls, results,
                   started, stageRes, doneWrites>>

Threads == 1..Len(stacks)

Next ==
    \/ \E n \in 0..MaxFilters : AddFilters(n)
          /\ UNCHANGED svars
    \/ \E n \in 0..MaxFilters : AddParallelFilters(n)
          /\ UNCHANGED svars
    \/ \E op \in {"Execute", "Next"} : DriverCall(op)
          /\ UNCHANGED svars
    \/ \E t \in Threads : ChainExecute(t)
          /\ UNCHANGED svars
    \/ \E t \in Threads : ChainExecuteRet(t)
          /\ UNCHANGED svars
    \/ \E t \in Threads : ChainNext(t)
          /\ UNCHANGED svars
    \/ \E t \in Threads : ChainNextRet(t)
          /\ UNCHANGED svars
    \/ \E t \in Threads : SerialExecute(t)
          /\ UNCHANGED svars
    \/ \E t \in Threads : SerialExecuteRet(t)
          /\ UNCHANGED svars
    \/ \E t \in Threads : ParallelExecute(t)
          /\ UNCHANGED svars
    \/ \E t \in Threads : ParallelLaunch(t)
          /\ UNCHANGED svars
    \/ \E t \in Threads : ParallelJoin(t)
          /\ UNCHANGED svars
    \/ \E t \in Threads : ParallelExecuteRet(t)
          /\ UNCHANGED svars
    \/ \E t \in Threads, r \in Results : GoReturn(t, r)
          /\ UNCHANGED svars
    \/ \E t \in Threads : FilterInc(t)
          /\ UNCHANGED svars
    \/ \E t \in Threads, op \in {"Next", "Execute"} : FilterCall(t, op)
          /\ UNCHANGED svars
    \/ \E t \in Threads, r \in Results : FilterReturn(t, r)
          /\ UNCHANGED svars

Spec == Init /\ [][Next]_vars

\* ---- Store ----
\* mutant: Put inserts but does not overwrite
MapPut_KeepOld(d, k, v) ==
    IF k \in DOMAIN d THEN d
    ELSE [x \in DOMAIN d \cup {k} |-> IF x = k THEN v ELSE d[x]]

\* s.data[key] = value
MapPut(d, k, v) == [x \in DOMAIN d \cup {k} |-> IF x = k THEN v ELSE d[x]]

\* var value, ok = s.data[key]
MapGet(d, k) == IF k \in DOMAIN d THEN <<d[k], TRUE>> ELSE <<"nil", FALSE>>

\* mutant: Lock does not wait for the readers and the writer to leave
WLockFree_NoExclusion == TRUE

\* s.Lock() can be granted: no writer and no reader holds the mutex
WLockFree == ~wlock /\ rcount = 0

\* s.RLock() can be granted: no writer holds the mutex
RLockFree == ~wlock

\* goroutine p is between its lock and its unlock
InCS(p) == procs[p].pc \in {"cs", "unlock"}

\* another goroutine is about to access the map while p accesses it
Racing(p) == \E q \in 1..MaxProcs : q # p /\ procs[q].pc = "cs"

\* a call of another goroutine has not returned yet
InFlight(p) ==
    \E q \in 1..MaxProcs : q # p /\ procs[q].pc \notin {"idle", "done"}

\* a goroutine calls store.Put(k, v)
StartPut(p, k, v) ==
    /\ procs[p].pc \in {"idle", "done"}
    /\ nops < MaxOps
    /\ nops' = nops + 1
    /\ procs' = [procs EXCEPT ![p] =
          [IdleProc EXCEPT !.op = "Put", !.key = k, !.val = v, !.pc = "lock",
                           !.conc = InFlight(p)]]
    /\ puts' = puts \cup {<<k, v>>}
    /\ nputs' = nputs + 1
    /\ UNCHANGED <<data, wlock, rcount, hist, crashed>>

\* a goroutine calls store.Get(k)
StartGet(p, k) ==
    /\ procs[p].pc \in {"idle", "done"}
    /\ nops < MaxOps
    /\ nops' = nops + 1
    /\ procs' = [procs EXCEPT ![p] =
          [IdleProc EXCEPT !.op = "Get", !.key = k, !.pc = "lock",
                           !.conc = InFlight(p)]]
    /\ UNCHANGED <<data, wlock, rcount, puts, nputs, hist, crashed>>

\* s.Lock()
PutLock(p) ==
    /\ procs[p].pc = "lock" /\ procs[p].op = "Put"
    /\ WLockFree
    /\ wlock' = TRUE
    /\ procs' = [procs EXCEPT ![p].pc = "cs"]
    /\ UNCHANGED <<data, rcount, nops, puts, nputs, hist, crashed>>

\* s.data[key] = value; an unsynchronized concurrent access of the map is
\* a data race: the write may be applied or lost, or the runtime aborts
PutWrite(p) ==
    /\ procs[p].pc = "cs" /\ procs[p].op = "Put"
    /\ LET k == procs[p].key
           v == procs[p].val
       IN  /\ IF Racing(p)
              THEN /\ data' \in {MapPut(data, k, v), data}
                   /\ crashed' \in BOOLEAN
              ELSE /\ data' = MapPut(data, k, v)
                   /\ crashed' = crashed
           /\ hist' = [hist EXCEPT ![k] = Append(@, v)]
    /\ procs' = [procs EXCEPT ![p].pc = "unlock"]
    /\ UNCHANGED <<wlock, rcount, nops, puts, nputs>>

\* defer s.Unlock()
PutUnlock(p) ==
    /\ procs[p].pc = "unlock" /\ procs[p].op = "Put"
    /\ wlock' = FALSE
    /\ procs' = [procs EXCEPT ![p].pc = "done"]
    /\ UNCHANGED <<data, rcount, nops, puts, nputs, hist, crashed>>

\* s.RLock()
GetRLock(p) ==
    /\ procs[p].pc = "lock" /\ procs[p].op = "Get"
    /\ RLockFree
    /\ rcount' = rcount + 1
    /\ procs' = [procs EXCEPT ![p].pc = "cs"]
    /\ UNCHANGED <<data, wlock, nops, puts, nputs, hist, crashed>>

\* var value, ok = s.data[key]
GetRead(p) ==
    /\ procs[p].pc = "cs" /\ procs[p].op = "Get"
    /\ procs' = [procs EXCEPT ![p] =
          [@ EXCEPT !.pc = "unlock",
                    !.res = MapGet(data, procs[p].key),
                    !.ver = Len(hist[procs[p].key])]]
    /\ UNCHANGED <<data, wlock, rcount, nops, puts, nputs, hist, crashed>>

\* defer s.RUnlock(); return value, ok
GetRUnlock(p) ==
    /\ procs[p].pc = "unlock" /\ procs[p].op = "Get"
    /\ rcount' = rcount - 1
    /\ procs' = [procs EXCEPT ![p].pc = "done"]
    /\ UNCHANGED <<data, wlock, nops, puts, nputs, hist, crashed>>

NextStore ==
    \/ \E p \in 1..MaxProcs, k \in Keys, v \in Vals : StartPut(p, k, v)
          /\ UNCHANGED vars
    \/ \E p \in 1..MaxProcs, k \in Keys : StartGet(p, k)
          /\ UNCHANGED vars
    \/ \E p \in 1..MaxProcs : PutLock(p)
          /\ UNCHANGED vars
    \/ \E p \in 1..MaxProcs : PutWrite(p)
          /\ UNCHANGED vars
    \/ \E p \in 1..MaxProcs : PutUnlock(p)
          /\ UNCHANGED vars
    \/ \E p \in 1..MaxProcs : GetRLock(p)
          /\ UNCHANGED vars
    \/ \E p \in 1..MaxProcs : GetRead(p)
          /\ UNCHANGED vars
    \/ \E p \in 1..MaxProcs : GetRUnlock(p)
          /\ UNCHANGED vars

SpecStore == Init /\ [][NextStore]_svars

\* ---- one run of a chain whose filters all succeed ----
\* the chain is built before it is driven
BuildSerial(n) == ncalls = 0 /\ AddFilters(n)

BuildParallel(n) == ncalls = 0 /\ AddParallelFilters(n)

\* the driver's single chain.Execute(store), from cursor 0
RunOnce == ncalls = 0 /\ DriverCall("Execute")

\* a serial filter calls chain.Next once; a branch may call it too
GoodCall(t) == FilterCall(t, "Next") /\ (InBranch(t) \/ Top(t).k = 0)

\* a serial filter returns nil after its call of Next
GoodReturn(t) == FilterReturn(t, "nil") /\ Top(t).k = 1

\* a branch returns nil
GoodGoReturn(t) == GoReturn(t, "nil")

\* the steps of the goroutines, which the scheduler keeps running
RunStep ==
    \E t \in Threads :
        \/ ChainExecute(t) \/ ChainExecuteRet(t)
        \/ ChainNext(t) \/ ChainNextRet(t)
        \/ SerialExecute(t) \/ SerialExecuteRet(t)
        \/ ParallelExecute(t) \/ ParallelLaunch(t)
        \/ ParallelJoin(t) \/ ParallelExecuteRet(t)
        \/ FilterInc(t) \/ GoodCall(t) \/ GoodReturn(t) \/ GoodGoReturn(t)

NextRun ==
    \/ \E n \in 0..MaxFilters : BuildSerial(n)
          /\ UNCHANGED svars
    \/ \E n \in 0..MaxFilters : BuildParallel(n)
          /\ UNCHANGED svars
    \/ RunOnce
          /\ UNCHANGED svars
    \/ \E t \in Threads : ChainExecute(t)
          /\ UNCHANGED svars
    \/ \E t \in Threads : ChainExecuteRet(t)
          /\ UNCHANGED svars
    \/ \E t \in Threads : ChainNext(t)
          /\ UNCHANGED svars
    \/ \E t \in Threads : ChainNextRet(t)
          /\ UNCHANGED svars
    \/ \E t \in Threads : SerialExecute(t)
          /\ UNCHANGED svars
    \/ \E t \in Threads : SerialExecuteRet(t)
          /\ UNCHANGED svars
    \/ \E t \in Threads : ParallelExecute(t)
          /\ UNCHANGED svars
    \/ \E t \in Threads : ParallelLaunch(t)
          /\ UNCHANGED svars
    \/ \E t \in Threads : ParallelJoin(t)
          /\ UNCHANGED svars
    \/ \E t \in Threads : ParallelExecuteRet(t)
          /\ UNCHANGED svars
    \/ \E t \in Threads : FilterInc(t)
          /\ UNCHANGED svars
    \/ \E t \in Threads : GoodCall(t)
          /\ UNCHANGED svars
    \/ \E t \in Threads : GoodReturn(t)
          /\ UNCHANGED svars
    \/ \E t \in Threads : GoodGoReturn(t)
          /\ UNCHANGED svars

SpecRun == Init /\ [][NextRun]_vars /\ WF_vars(RunStep)

\* ---- vocabulary of the properties ----
NumFilters(c) == Len(StageAt(c).fs)

AllNil(o) == \A j \in 1..Len(o) : o[j] = "nil"

\* the first error in the order in which the branches finished
FirstObserved(o) ==
    o[CHOOSE j \in 1..Len(o) :
        o[j] # "nil" /\ \A m \in 1..(j - 1) : o[m] = "nil"]

HasStarted(c) == \E j \in 1..Len(started) : started[j] = c

GroupsOf(c) == {g \in 1..Len(groups) : groups[g].stage = c}

\* no filter body or branch goroutine of stage c is still on a stack
BodiesReturned(c) ==
    /\ HasStarted(c)
    /\ \A t \in Threads : \A j \in 1..Len(stacks[t]) :
          stacks[t][j].op \in {"filter", "go"} => stacks[t][j].c # c
    /\ \A g \in GroupsOf(c) :
          groups[g].fin = NumFilters(c) /\ groups[g].launched = NumFilters(c)

StageReturns == ev.kind = "ret" /\ ev.op = "parallel"

ExecuteReturns == ev.kind = "ret" /\ ev.op = "Execute" /\ ev.c >= 0

\* ---- C1 ----
C1_Groups ==
    \A g \in 1..Len(groups) :
        LET G == groups[g]
        IN  /\ G.branchExec = 0
            /\ G.joinExec <= 1
            /\ G.joinExec = 1 =>
                  StageAt(G.stage).done /\ G.fin = NumFilters(G.stage)
            /\ (stageRes[G.stage + 1] # "none" /\ AllNil(G.order)) =>
                  G.joinExec = 1

C1_BranchNext ==
    \A t \in Threads :
        (At(t, "Next", "start") /\ Top(t).src = "branch"
            /\ stacks'[t] # stacks[t]) =>
           /\ stacks'[t] = Ret(stacks[t], "nil")
           /\ pos' = pos /\ started' = started /\ filters' = filters

\* C1: every Next issued by a branch of a running Parallel stage returns nil
\* and leaves cursor, flags and started stages unchanged; no Chain.Execute
\* call ever results from a branch's Next, at most one results from the
\* join's Next, it happens with the flag true and every branch finished, and
\* exactly one has happened once a stage all of whose branches succeeded has
\* returned.
C1_OneExecutePerGroup == [](C1_Groups) /\ [][C1_BranchNext]_vars

C1_Witness ==
    \E g \in 1..Len(groups) :
        /\ groups[g].branchNext >= 2
        /\ groups[g].branchNext = NumFilters(groups[g].stage)
        /\ groups[g].joinExec = 1

\* ---- C2 ----
\* C2 as stated: when stage N+1 starts, every filter of stage N has
\* returned, and a Parallel stage N has its flag true.
C2_Original ==
    (ev.kind = "start" /\ ev.c >= 1) =>
        /\ BodiesReturned(ev.c - 1)
        /\ StageAt(ev.c - 1).kind = "parallel" => StageAt(ev.c - 1).done

\* C2 amended: when stage N+1 starts, stage N has started; if stage N is a
\* Parallel stage every one of its branches has returned and its join has
\* completed, the flag being true exactly when no branch failed (after a
\* failed join the stage has already returned its error).  A Serial stage
\* N's filter may still be running.
C2_StageOrder ==
    (ev.kind = "start" /\ ev.c >= 1) =>
        LET n == ev.c - 1
        IN  /\ HasStarted(n)
            /\ StageAt(n).kind = "parallel" =>
                  /\ GroupsOf(n) # {}
                  /\ BodiesReturned(n)
                  /\ \A g \in GroupsOf(n) :
                        /\ StageAt(n).done <=> AllNil(groups[g].order)
                        /\ StageAt(n).done => groups[g].joinExec = 1
                        /\ ~StageAt(n).done => stageRes[n + 1] \in Errs

C2_Witness ==
    /\ ev.kind = "start" /\ ev.c >= 1 /\ ev.src = "join"
    /\ StageAt(ev.c - 1).kind = "parallel"
    /\ StageAt(ev.c - 1).done

\* ---- C3 ----
C3_IncrementFirst ==
    /\ ev.kind = "start" => pos = ev.c + 1 /\ ev.p0 = ev.c
    /\ \A t \in Threads : At(t, "filter", "start") => pos = Top(t).c + 1

C3_Verbatim == ExecuteReturns => ev.r = stageRes[ev.c + 1]

\* C3 as stated: the cursor is c+1 when stage c's body starts, every Next the
\* body issues observes cursor = c+1, and Execute returns the stage's result.
C3_Original ==
    /\ C3_IncrementFirst
    /\ \A t \in Threads :
          (At(t, "Next", "start") /\ Top(t).src \in {"filter", "branch"}) =>
              pos = Top(t).c + 1
    /\ C3_Verbatim

\* C3 amended: the cursor is c+1 when stage c's body starts; a Next the body
\* issues observes cursor = c+1 as long as no earlier call of that body has
\* started a further stage, and a larger cursor afterwards; Execute returns
\* exactly the result stage c returned.
C3_ExecuteRunsStage ==
    /\ C3_IncrementFirst
    /\ \A t \in Threads :
          (At(t, "Next", "start") /\ Top(t).src \in {"filter", "branch"}) =>
              LET body == stacks[t][Len(stacks[t]) - 1]
              IN  /\ pos >= Top(t).c + 1
                  /\ Len(started) = body.s0 <=> pos = Top(t).c + 1
    /\ C3_Verbatim

C3_Witness == ExecuteReturns /\ ev.r \in Errs /\ Len(started) > ev.s0 + 1

\* ---- C4 ----
C4_NextStep ==
    \A t \in Threads :
        (At(t, "Next", "start") /\ pos >= 1 /\ pos <= Len(filters)
            /\ stacks'[t] # stacks[t]) =>
           /\ pos' = pos /\ started' = started /\ filters' = filters
           /\ IF filters[pos].kind = "parallel" /\ ~filters[pos].done
              THEN stacks'[t] = Ret(stacks[t], "nil")
              ELSE /\ Len(stacks'[t]) = Len(stacks[t]) + 1
                   /\ stacks'[t][Len(stacks'[t])].op = "Execute"
                   /\ stacks'[t][Len(stacks'[t])].pc = "start"
                   /\ stacks'[t][Len(stacks[t])].op = "Next"

C4_NextReturn ==
    \A t \in Threads :
        (At(t, "Next", "ret") /\ stacks'[t] # stacks[t]) =>
           /\ ev.kind = "ret" /\ ev.op = "Execute" /\ ev.t = t
           /\ ev'.op = "Next" /\ ev'.r = ev.r

\* C4: with the stage at index cursor-1 a Parallel stage whose flag is false,
\* Next returns nil and changes neither cursor, flags nor started stages; in
\* every other case Next becomes a call of Chain.Execute in the unchanged
\* state and returns that call's result.
C4_NextGate == [][C4_NextStep /\ C4_NextReturn]_vars

C4_Witness ==
    /\ ev.kind = "delegate" /\ ev.src = "join"
    /\ StageAt(ev.c).done
    /\ groups[ev.g].branchNext >= 1

\* ---- C5 ----
\* C5: a Parallel stage with a failing branch returns the first error its
\* branches reported, leaves its flag false, does not call Next, and leaves
\* the cursor and the started stages as they were when it started.
C5_FirstError ==
    (StageReturns /\ ~AllNil(groups[ev.g].order)) =>
        /\ ev.r = FirstObserved(groups[ev.g].order)
        /\ ev.r \in Errs
        /\ ~StageAt(ev.c).done
        /\ doneWrites[ev.c + 1] = 0
        /\ groups[ev.g].joinExec = 0
        /\ pos = ev.p0 /\ pos = ev.c + 1
        /\ Len(started) = ev.s0

C5_Witness ==
    /\ StageReturns
    /\ \E j, m \in 1..Len(groups[ev.g].order) :
          /\ groups[ev.g].order[j] # "nil"
          /\ groups[ev.g].order[m] # "nil"
          /\ groups[ev.g].order[j] # groups[ev.g].order[m]

\* ---- C6 ----
\* C6: when a Parallel stage's Execute returns, with or without an error,
\* every branch it launched has finished: the finished branches are as many
\* as the owned filters and none of its goroutines is still running.
C6_AllBranchesFinish ==
    StageReturns =>
        /\ groups[ev.g].launched = NumFilters(ev.c)
        /\ groups[ev.g].fin = NumFilters(ev.c)
        /\ Len(groups[ev.g].order) = NumFilters(ev.c)
        /\ \A t \in Threads :
              stacks[t] # <<>> => ~(stacks[t][1].op = "go"
                                    /\ stacks[t][1].g = ev.g)

C6_Witness ==
    /\ StageReturns /\ ev.r \in Errs
    /\ groups[ev.g].fin >= 2
    /\ groups[ev.g].order[1] # "nil"

\* ---- C7 ----
\* C7: a stage started through the join's Next starts with the Parallel
\* stage's flag already true and all its branches finished without error;
\* when a Parallel stage all of whose branches succeeded returns, its flag is
\* true, the join has made its one Execute call, the next stage has been
\* started if there was one, every branch has incremented the counter, and
\* the result is nil unless a later stage was started.
C7_FlagThenNext ==
    /\ (ev.kind = "start" /\ ev.src = "join") =>
          /\ ev.c >= 1
          /\ StageAt(ev.c - 1).kind = "parallel"
          /\ StageAt(ev.c - 1).done
          /\ \A g \in GroupsOf(ev.c - 1) :
                AllNil(groups[g].order)
                   /\ groups[g].fin = NumFilters(ev.c - 1)
    /\ (StageReturns /\ AllNil(groups[ev.g].order)) =>
          /\ StageAt(ev.c).done
          /\ groups[ev.g].joinExec = 1
          /\ groups[ev.g].branchExec = 0
          /\ groups[ev.g].incs = NumFilters(ev.c)
          /\ counter >= NumFilters(ev.c)
          /\ ev.c + 1 < Len(filters) => HasStarted(ev.c + 1)
          /\ Len(started) = ev.s0 => ev.r = "nil"

C7_Witness ==
    /\ StageReturns /\ AllNil(groups[ev.g].order)
    /\ groups[ev.g].branchNext = NumFilters(ev.c)
    /\ HasStarted(ev.c + 1)

\* ---- C8 ----
C8_Flag ==
    \A i \in 1..Len(filters) :
        filters[i].kind = "parallel" =>
           /\ doneWrites[i] <= 1
           /\ filters[i].done <=> doneWrites[i] = 1
           /\ filters[i].done =>
                 /\ GroupsOf(i - 1) # {}
                 /\ \A g \in GroupsOf(i - 1) :
                       /\ groups[g].fin = Len(filters[i].fs)
                       /\ AllNil(groups[g].order)

C8_FlagStep ==
    /\ \A i \in 1..Len(filters) : filters[i].done => filters'[i].done
    /\ \A i \in (Len(filters) + 1)..Len(filters') : ~filters'[i].done

\* C8: a Parallel stage's flag is false when the stage is added, is written
\* at most once, is never reset, and is true only when every owned filter
\* has finished without error.
C8_WriteOnceFlag == [](C8_Flag) /\ [][C8_FlagStep]_vars

C8_Witness ==
    \E i \in 1..Len(filters) :
        filters[i].kind = "parallel" /\ filters[i].done /\ Idle

\* ---- C9 ----
\* C9: no call of Chain.Execute or Chain.Next aborts: a stage is never
\* indexed outside [0, length-1].
C9_NoAbort == ~panicked

\* ---- C10 ----
\* C10 as stated: an Execute call made with cursor c < length that returns
\* nil returns with cursor = c+1.
C10_Original == (ExecuteReturns /\ ev.r = "nil") => pos = ev.c + 1

\* C10 amended: an Execute call made with cursor c < length increments the
\* cursor once itself, so the cursor is c+1 when stage c starts; when the
\* call returns the cursor is c plus the number of stages started during the
\* call, nested calls included, hence at least c+1.
C10_CursorPerStage ==
    /\ ev.kind = "start" => pos = ev.p0 + 1
    /\ ExecuteReturns =>
          /\ ev.p0 = ev.c
          /\ pos = ev.c + (Len(started) - ev.s0)
          /\ pos >= ev.c + 1

C10_Witness == ExecuteReturns /\ ev.r = "nil" /\ pos = ev.c + 2

\* ---- C11 ----
C11_CursorInRange == 0 <= pos /\ pos <= Len(filters)

C11_ExhaustedStep ==
    \A t \in Threads :
        (At(t, "Execute", "start") /\ pos = Len(filters)
            /\ stacks'[t] # stacks[t]) =>
           /\ stacks'[t] = Ret(stacks[t], "nil")
           /\ (t = 1 /\ Len(stacks[1]) = 1) => results' = Append(results, "nil")
           /\ pos' = pos /\ started' = started /\ filters' = filters
           /\ groups' = groups

\* C11: Chain.Execute called with cursor = length returns nil, starts no
\* stage and changes neither the cursor nor any flag; the cursor of a chain
\* that started at 0 is within [0, length] in every reachable state.
C11_ExhaustedNoop == [](C11_CursorInRange) /\ [][C11_ExhaustedStep]_vars

C11_Witness ==
    /\ ev.kind = "ret" /\ ev.op = "Execute" /\ ev.c = -1
    /\ pos = Len(filters) /\ Len(filters) >= 1
    /\ results # <<>> /\ Idle

\* ---- C12 ----
C12_DriverStep ==
    (/\ At(1, "Execute", "start") /\ Len(stacks[1]) = 1
     /\ \E j \in 1..Len(results) : results[j] \in Errs
     /\ pos < Len(filters)
     /\ stacks'[1] # stacks[1]) =>
        /\ pos' = pos + 1
        /\ started' = Append(started, pos)
        /\ Len(stacks'[1]) = 2
        /\ stacks'[1][2].op = filters[pos + 1].kind
        /\ stacks'[1][2].c = pos
        /\ stacks'[1][2].pc = "start"

\* C12: after a call of the driver has returned a stage's error, a further
\* Execute of the driver with cursor < length advances the cursor by one and
\* starts the stage at the cursor, whatever failed before.
C12_NoHaltedState == [][C12_DriverStep]_vars

C12_Witness ==
    /\ ev.kind = "start" /\ ev.src = "driver" /\ Len(stacks[1]) = 2
    /\ results # <<>> /\ results[1] \in Errs
    /\ stageRes[1] \in Errs
    /\ ev.c >= 1

\* ---- C13 ----
C13_Run ==
    \A t \in Threads :
        (At(t, "serial", "start") /\ stacks'[t] # stacks[t]) =>
           /\ Len(stacks'[t]) = Len(stacks[t]) + 1
           /\ SubSeq(stacks'[t], 1, Len(stacks[t]) - 1)
                 = SubSeq(stacks[t], 1, Len(stacks[t]) - 1)
           /\ stacks'[t][Len(stacks[t])].op = "serial"
           /\ stacks'[t][Len(stacks[t])].pc = "call"
           /\ Top(t)'.op = "filter" /\ Top(t)'.pc = "start"
           /\ Top(t)'.c = Top(t).c
           /\ pos' = pos /\ started' = started /\ filters' = filters

C13_Return ==
    \A t \in Threads :
        (At(t, "serial", "ret") /\ stacks'[t] # stacks[t]) =>
           /\ ev.kind = "ret" /\ ev.op = "filter" /\ ev.t = t
           /\ ev.c = Top(t).c
           /\ stacks'[t] = Ret(stacks[t], ev.r)
           /\ stageRes'[Top(t).c + 1] = ev.r
           /\ ev'.kind = "ret" /\ ev'.op = "serial" /\ ev'.r = ev.r
           /\ pos' = pos /\ started' = started /\ filters' = filters

\* the body of a serial stage has returned without calling the chain
C13_NoContinuation ==
    (ev.kind = "ret" /\ ev.op = "filter" /\ ev.src = "filter" /\ ev.k = 0) =>
        /\ At(ev.t, "serial", "ret")
        /\ pos = Top(ev.t).p0 /\ pos = ev.c + 1
        /\ Len(started) = Top(ev.t).s0
        /\ NumDone = Top(ev.t).d0
        /\ started[Len(started)] = ev.c

\* C13: a Serial stage's Execute calls its one filter once and returns what
\* the filter returned, error or nil, unchanged; the stage itself changes
\* neither cursor, flags nor started stages, so when the body has not called
\* the chain they are what they were when the stage started and stage c is
\* still the last stage started.
C13_SerialVerbatim == [](C13_NoContinuation) /\ [][C13_Run /\ C13_Return]_vars

C13_Witness ==
    /\ ev.kind = "ret" /\ ev.op = "serial" /\ ev.r \in Errs
    /\ pos = ev.p0 /\ Len(started) = ev.s0
    /\ ev.c + 1 < Len(filters)

\* ---- C16 ----
C16_AddStep ==
    (/\ ev'.kind = "add" /\ ev'.op = "AddParallelFilters"
     /\ ev' # ev \/ nextId' # nextId) =>
        LET n == ev'.c
            last == filters'[Len(filters')]
        IN  /\ pos' = pos
            /\ nextId' = nextId + n
            /\ SubSeq(filters', 1, Len(filters)) = filters
            /\ n = 0 => filters' = filters
            /\ n = 1 =>
                  /\ Len(filters') = Len(filters) + 1
                  /\ last = [kind |-> "serial", fs |-> <<nextId>>,
                             done |-> FALSE]
            /\ n >= 2 =>
                  /\ Len(filters') = Len(filters) + 1
                  /\ last.kind = "parallel"
                  /\ last.fs = [j \in 1..n |-> nextId + j - 1]
                  /\ ~last.done

\* C16: AddParallelFilters leaves the cursor and the existing stages as they
\* are and appends at the end: nothing for zero filters, one Serial stage
\* wrapping the filter for one filter, one Parallel stage wrapping all the
\* filters in the order given, with its flag false, for two or more.
C16_AddParallel == [][C16_AddStep]_vars

C16_Witness ==
    /\ ev.kind = "add" /\ ev.op = "AddParallelFilters" /\ ev.c >= 2
    /\ Len(filters) >= 2
    /\ filters[Len(filters)].kind = "parallel"
    /\ Len(filters[Len(filters)].fs) = ev.c
    /\ pos >= 1

\* ---- C17 ----
Branches == {t \in Threads : t # 1 /\ stacks[t] # <<>>}

\* from the creation of a stage's errgroup to the end of g.Wait()
C17_Frozen ==
    /\ \A j \in 1..Len(stacks[1]) :
          (stacks[1][j].op = "parallel" /\ stacks[1][j].pc = "launch") =>
              /\ pos = stacks[1][j].p0 /\ pos = stacks[1][j].c + 1
              /\ Len(started) = stacks[1][j].s0
    /\ \A t \in Branches :
          /\ stacks[t][1].op = "go"
          /\ pos = stacks[t][1].p0
          /\ \A j \in 1..Len(stacks[t]) : stacks[t][j].op # "Execute"
          /\ At(1, "parallel", "launch") /\ Top(1).g = stacks[t][1].g

C17_Mutation ==
    pos' # pos =>
        /\ Branches = {}
        /\ At(1, "Execute", "start")
        /\ stacks'[1] # stacks[1]
        /\ \A j \in 1..Len(stacks[1]) :
              (stacks[1][j].op = "parallel" /\ stacks[1][j].c = pos - 1) =>
                  /\ Top(1).src = "join" /\ Top(1).g = stacks[1][j].g
                  /\ StageAt(pos - 1).done
                  /\ groups[stacks[1][j].g].fin = NumFilters(pos - 1)
                  /\ j = Len(stacks[1]) - 2

\* C17: with one driver and branches that reach the chain through Next only,
\* the cursor is written by the driving goroutine alone and only while no
\* branch is running: from the creation of a Parallel stage's group to the
\* end of its join the cursor keeps the value it had when the stage started,
\* and the first cursor change made while that stage's Execute is still
\* active is the one of the join's Next, after the flag was set.
C17_SingleWriter == [](C17_Frozen) /\ [][C17_Mutation]_vars

C17_Witness ==
    /\ ev.kind = "start" /\ ev.src = "join"
    /\ ev.g >= 1 /\ groups[ev.g].branchNext >= 1
    /\ groups[ev.g].stage = ev.c - 1

\* ---- C18 ----
C18_Started ==
    /\ Len(started) = pos
    /\ \A j \in 1..Len(started) : started[j] = j - 1

C18_Step ==
    /\ pos' >= pos
    /\ Len(started') >= Len(started)
    /\ SubSeq(started', 1, Len(started)) = started

\* C18: under one driver the cursor never decreases, and the stages started
\* so far are exactly the stages 0 .. cursor-1, each started once and in
\* index order, whatever Execute and Next calls the driver and the filter
\* bodies make.
C18_Monotone == [](C18_Started) /\ [][C18_Step]_vars

C18_Witness ==
    /\ Len(started) >= 2
    /\ \E j \in 1..Len(stacks[1]) :
          stacks[1][j].op = "filter" /\ stacks[1][j].k >= 2
    /\ Len(results) >= 1

\* ---- C19 ----
\* C19: a Parallel stage's Execute returns an error in one of two ways.
\* With its flag false: the error is the one a branch of its own returned
\* and the join has called nothing.  With its flag true: every branch
\* succeeded, the join's Next has started the next stage and the error is
\* what that stage returned; the flag stays true and the cursor is beyond
\* the next stage's index.
C19_ErrorOrigin ==
    (StageReturns /\ ev.r \in Errs) =>
        LET G == groups[ev.g]
        IN  IF ~StageAt(ev.c).done
            THEN /\ \E j \in 1..Len(G.order) : G.order[j] = ev.r
                 /\ G.joinExec = 0
                 /\ doneWrites[ev.c + 1] = 0
            ELSE /\ AllNil(G.order)
                 /\ G.joinExec = 1
                 /\ ev.c + 1 < Len(filters)
                 /\ HasStarted(ev.c + 1)
                 /\ ev.r = stageRes[ev.c + 2]
                 /\ doneWrites[ev.c + 1] = 1
                 /\ pos >= ev.c + 2 /\ pos > ev.p0

C19_Witness ==
    /\ StageReturns /\ ev.r \in Errs
    /\ StageAt(ev.c).done
    /\ Len(groups[ev.g].order) >= 2
    /\ stageRes[ev.c + 2] = ev.r

\* ---- C14 ----
Procs == 1..MaxProcs

PutKeys == {pr[1] : pr \in puts}

C14_Exclusion ==
    \A p \in Procs :
        (procs[p].op = "Put" /\ InCS(p)) =>
            /\ wlock /\ rcount = 0
            /\ \A q \in Procs : q # p => ~InCS(q)

C14_ReadersShare ==
    /\ rcount = Cardinality({p \in Procs : procs[p].op = "Get" /\ InCS(p)})
    /\ wlock <=> \E p \in Procs : procs[p].op = "Put" /\ InCS(p)

\* every Put issued has returned and no two of them had the same key
C14_PutsReturned ==
    /\ \A p \in Procs : procs[p].op = "Put" => procs[p].pc = "done"
    /\ Cardinality(PutKeys) = nputs

C14_NoLoss ==
    C14_PutsReturned =>
        /\ DOMAIN data = PutKeys
        /\ Cardinality(DOMAIN data) = nputs
        /\ \A pr \in puts : data[pr[1]] = pr[2]

\* C14: in every interleaving of Put and Get calls a goroutine inside Put's
\* critical section holds the lock alone, no other reader or writer being
\* inside its own; the runtime never sees a concurrent map access; and once
\* N Put calls with N distinct keys have all returned the map holds exactly
\* those N keys, each with the value put.
C14_NoLostWrite ==
    C14_Exclusion /\ C14_ReadersShare /\ ~crashed /\ C14_NoLoss

C14_Witness ==
    /\ C14_PutsReturned /\ nputs >= 2
    /\ \E p, q \in Procs :
          /\ p # q
          /\ procs[p].op = "Put" /\ procs[q].op = "Put"
          /\ procs[p].pc = "done" /\ procs[q].pc = "done"
          /\ procs[p].conc
          /\ procs[p].key # procs[q].key
    /\ Cardinality(DOMAIN data) = nputs

\* ---- C15 ----
C15_GetResult ==
    \A p \in Procs :
        (procs[p].op = "Get" /\ procs[p].pc \in {"unlock", "done"}) =>
            LET h == hist[procs[p].key]
                n == procs[p].ver
            IN  IF n = 0 THEN procs[p].res[2] = FALSE
                ELSE procs[p].res = <<h[n], TRUE>>

C15_Upsert ==
    \A k \in Keys :
        /\ k \in DOMAIN data <=> hist[k] # <<>>
        /\ hist[k] # <<>> => data[k] = hist[k][Len(hist[k])]

\* C15: a Get of key k returns (v, true) where v is the value of the last
\* Put on k that preceded it, and found = false when no Put on k preceded
\* it; the map holds for every key the value of the last Put on it, a later
\* Put replacing an earlier one.
C15_PutThenGet == C15_GetResult /\ C15_Upsert

C15_Witness ==
    \E p \in Procs :
        /\ procs[p].op = "Get" /\ procs[p].pc = "done"
        /\ procs[p].ver >= 2
        /\ hist[procs[p].key][1] # hist[procs[p].key][2]
        /\ procs[p].res = <<hist[procs[p].key][2], TRUE>>

\* ---- C20 ----
C20_Completed ==
    results # <<>> =>
        /\ results = <<"nil">>
        /\ pos = Len(filters)
        /\ started = [j \in 1..Len(filters) |-> j - 1]
        /\ \A i \in 1..Len(filters) :
              /\ filters[i].kind = "parallel" => filters[i].done
              /\ stageRes[i] = "nil"
        /\ counter = NumAdded
        /\ \A t \in Threads : stacks[t] = <<>>
        /\ ~panicked

\* C20: when every filter returns nil and every Serial filter calls Next
\* once, the one Execute call made at cursor 0 returns, and when it has
\* returned its result is nil, every stage has been started once in order
\* and has returned nil, every filter body has run once, the cursor equals
\* the number of stages and every Parallel stage's flag is true.
C20_RunCompletes == [](C20_Completed) /\ (ncalls = 1 ~> results # <<>>)

C20_Witness ==
    /\ results = <<"nil">>
    /\ Len(filters) >= 2
    /\ filters[1].kind = "parallel" /\ filters[1].done
    /\ filters[2].kind = "serial"
    /\ started = <<0, 1>>
====
